---- MODULE Spec2Model ----
(***************************************************************************)
(* Person reconciliation service: a model of support.js (reconciliatePerson *)
(* and the SPARQL queries and updates it issues) and of the single-key      *)
(* endpoint of app.js, over a quad store of named graphs.                   *)
(***************************************************************************)
EXTENDS Integers, Sequences, FiniteSets, TLC

VARIABLES
  store,        \* the triple store: a set of quads <<graph, subject, predicate, object>>
  defaultGraph, \* the graph a template without a GRAPH clause writes to
  pc,           \* position of the running reconciliatePerson call
  rrn,          \* its rrn argument
  isDryRun,     \* its options.isDryRun
  persons,      \* result of getDuplicatePersonUris, in the store's order
  slaves,       \* bundles fetched so far
  master,       \* result of constructMaster
  idx,          \* index of the person being fetched / slave being replaced
  res,          \* resource of the slave being redirected
  response,     \* status the endpoint answered with
  updates,      \* update calls issued by the running call
  store0,       \* the store when the running call started
  runs,         \* calls started
  fails,        \* store calls that failed
  log,          \* one record per finished call
  handler,      \* the route whose handler started the calls
  loop,         \* state of the handler's loop over its keys
  rrns,         \* POST /reconciliate: result of getDuplicateIdentificators
  delta,        \* POST /delta: the request body
  identificators, \* POST /delta: result of getIdentificators
  loopI,        \* position of the handler's loop (i)
  ack,          \* what the handler answered to its caller
  other         \* a second reconciliatePerson call running at the same time

\* the state of the handlers that call reconciliatePerson more than once
env == <<handler, loop, rrns, delta, identificators, loopI, ack, other>>

vars == <<store, defaultGraph, pc, rrn, isDryRun, persons, slaves, master, idx,
          res, response, updates, store0, runs, fails, log, env>>

(***************************************************************************)
(* Bounds                                                                   *)
(***************************************************************************)
MaxRuns == 2
MaxFails == 1

(***************************************************************************)
(* RDF terms and vocabulary                                                 *)
(***************************************************************************)
sparqlEscapeUri(v) == [k |-> "uri", v |-> v]
sparqlEscapeString(v) == [k |-> "string", v |-> v]
XsdDate(v) == [k |-> "xsd:date", v |-> v]
Unbound == [k |-> "unbound", v |-> ""]

Undefined == "<undefined>"
JsNull == "<null>"
Null == [null |-> TRUE]
TypeError == [error |-> "TypeError"]
NoMaster == [none |-> TRUE]

Truthy(v) == v # Undefined /\ v # JsNull /\ v # ""

RdfType == "rdf:type"
MuUuid == "mu:uuid"
AdmsIdentifier == "adms:identifier"
FoafFamilyName == "foaf:familyName"
FoafName == "foaf:name"
GebruikteVoornaam == "persoon:gebruikteVoornaam"
HeeftGeboorte == "persoon:heeftGeboorte"
Geslacht == "persoon:geslacht"
Datum == "persoon:datum"
SkosNotation == "skos:notation"
OwlSameAs == "owl:sameAs"

PersonClass == sparqlEscapeUri("person:Person")
IdentifierClass == sparqlEscapeUri("adms:Identifier")
GeboorteClass == sparqlEscapeUri("persoon:Geboorte")

Graphs == {"G1", "G2", "G3"}
Keys == {"K1", "K2"}

(***************************************************************************)
(* Graph pattern matching                                                   *)
(***************************************************************************)
Objs(st, g, s, p) == {q[4] : q \in {r \in st : r[1] = g /\ r[2] = s /\ r[3] = p}}
Subjects(st, g) == {q[2] : q \in {r \in st : r[1] = g}}
Opt(S) == IF S = {} THEN {Unbound} ELSE S

\* ?person a person:Person ; adms:identifier ?identifier .
\* ?identifier skos:notation <rrn> .       (inside GRAPH g)
MatchesRrn(st, g, person, key) ==
  /\ <<g, person, RdfType, PersonClass>> \in st
  /\ \E i \in Objs(st, g, person, AdmsIdentifier) :
        <<g, i, SkosNotation, sparqlEscapeString(key)>> \in st

\* as getDuplicatePersonUris, without FILTER (?person != ?person2)
getDuplicatePersonUris_NoFilter(st, key) ==
  { [graph |-> g, uri |-> p.v] :
      <<g, p>> \in { gp \in Graphs \X UNION {Subjects(st, h) : h \in Graphs} :
                       /\ MatchesRrn(st, gp[1], gp[2], key)
                       /\ \E h \in Graphs : \E p2 \in Subjects(st, h) :
                             MatchesRrn(st, h, p2, key) } }

getDuplicatePersonUris(st, key) ==
  { [graph |-> g, uri |-> p.v] :
      <<g, p>> \in { gp \in Graphs \X UNION {Subjects(st, h) : h \in Graphs} :
                       /\ MatchesRrn(st, gp[1], gp[2], key)
                       /\ \E h \in Graphs : \E p2 \in Subjects(st, h) :
                             MatchesRrn(st, h, p2, key) /\ gp[2] # p2 } }

\* the pattern of getDuplicateIdentificators: as MatchesRrn, with mu:uuid ?uuid
MatchesRrnWithUuid(st, g, person, key) ==
  /\ MatchesRrn(st, g, person, key)
  /\ Objs(st, g, person, MuUuid) # {}

\* the values bound to ?rrn anywhere in the store
Notations(st) == { q[4].v : q \in { r \in st : r[3] = SkosNotation } }

getDuplicateIdentificators(st) ==
  { key \in Notations(st) :
      \E g, h \in Graphs : \E p \in Subjects(st, g), p2 \in Subjects(st, h) :
         /\ MatchesRrnWithUuid(st, g, p, key)
         /\ MatchesRrnWithUuid(st, h, p2, key)
         /\ p # p2 }

Orderings(S) ==
  { f \in [1..Cardinality(S) -> S] : \A i, j \in 1..Cardinality(S) : f[i] = f[j] => i = j }

(***************************************************************************)
(* getPerson: the SELECT with its OPTIONAL parts, then the bundle built     *)
(* from the first binding                                                   *)
(***************************************************************************)
BirthBindings(st, g, s) ==
  UNION { IF b = Unbound
            THEN {[birthdate |-> Unbound, geboorteUuid |-> Unbound, date |-> Unbound]}
            ELSE { [birthdate |-> b, geboorteUuid |-> gu, date |-> d] :
                     gu \in Opt(Objs(st, g, b, MuUuid)), d \in Opt(Objs(st, g, b, Datum)) } :
          b \in Opt(Objs(st, g, s, HeeftGeboorte)) }

PersonBindings(st, g, uri) ==
  LET s == sparqlEscapeUri(uri) IN
  IF <<g, s, RdfType, PersonClass>> \notin st THEN {} ELSE
  UNION { { [uuid |-> u, identifier |-> i,
             familyName |-> fn, name |-> n, firstName |-> f,
             birthdate |-> bb.birthdate, geboorteUuid |-> bb.geboorteUuid, date |-> bb.date,
             identifierUuid |-> iu, gender |-> ge, notation |-> no] :
              u \in Objs(st, g, s, MuUuid),
              fn \in Opt(Objs(st, g, s, FoafFamilyName)),
              n \in Opt(Objs(st, g, s, FoafName)),
              f \in Opt(Objs(st, g, s, GebruikteVoornaam)),
              bb \in BirthBindings(st, g, s),
              iu \in Opt(Objs(st, g, i, MuUuid)),
              no \in Opt(Objs(st, g, i, SkosNotation)),
              ge \in Opt(Objs(st, g, s, Geslacht)) } :
          i \in Objs(st, g, s, AdmsIdentifier) }

\* addOptionalProperties: the property is set only when the binding has it
OptionalProperty(t) == IF t = Unbound THEN Undefined ELSE t.v

Bundle(g, uri, b) ==
  [ graph |-> g,
    person |-> [uri |-> uri, uuid |-> b.uuid.v, identifier |-> b.identifier.v,
                familyName |-> OptionalProperty(b.familyName),
                name |-> OptionalProperty(b.name),
                firstName |-> OptionalProperty(b.firstName),
                gender |-> OptionalProperty(b.gender),
                birthdate |-> OptionalProperty(b.birthdate)],
    identifier |-> [uri |-> b.identifier.v,
                    uuid |-> OptionalProperty(b.identifierUuid),
                    notation |-> OptionalProperty(b.notation)],
    birthdate |-> IF b.birthdate = Unbound THEN Null
                  ELSE [uri |-> b.birthdate.v,
                        uuid |-> OptionalProperty(b.geboorteUuid),
                        date |-> OptionalProperty(b.date)] ]

\* The set of values getPerson can return: the store decides which binding is first.
getPerson(st, g, uri) ==
  IF PersonBindings(st, g, uri) = {} THEN {Null}
  ELSE { Bundle(g, uri, b) : b \in PersonBindings(st, g, uri) }

(***************************************************************************)
(* constructMaster                                                          *)
(***************************************************************************)
PersonProps == {"uri", "uuid", "familyName", "name", "firstName", "gender"}
IdentifierProps == {"uri", "uuid", "notation"}
BirthdateProps == {"uri", "uuid", "date"}

\* as FirstFound, with the last resource that has a value instead of the first
FirstFound_Last(rs, prop) ==
  IF \E i \in 1..Len(rs) : Truthy(rs[i][prop])
    THEN rs[CHOOSE i \in 1..Len(rs) :
              /\ Truthy(rs[i][prop])
              /\ \A j \in (i+1)..Len(rs) : ~Truthy(rs[j][prop])][prop]
    ELSE Undefined

\* slaves.find(s => s[prop]): the first resource with a truthy value
FirstFound(rs, prop) ==
  IF \E i \in 1..Len(rs) : Truthy(rs[i][prop])
    THEN rs[CHOOSE i \in 1..Len(rs) :
              /\ Truthy(rs[i][prop])
              /\ \A j \in 1..(i-1) : ~Truthy(rs[j][prop])][prop]
    ELSE Undefined

constructMasterForResource(resources, props) ==
  LET rs == SelectSeq(resources, LAMBDA r : r # Null)
      m == [prop \in props |-> FirstFound(rs, prop)]
  IN IF \E prop \in props : m[prop] # Undefined THEN m ELSE Null

\* as constructMaster, with the master person's links taken from the first
\* slave's person instead of from the merged identifier and birthdate
constructMaster_SlaveLinks(sl) ==
  IF \E i \in 1..Len(sl) : sl[i] = Null THEN TypeError
  ELSE
    LET person == constructMasterForResource([i \in 1..Len(sl) |-> sl[i].person], PersonProps)
        identifier == constructMasterForResource([i \in 1..Len(sl) |-> sl[i].identifier], IdentifierProps)
        birthdate == constructMasterForResource([i \in 1..Len(sl) |-> sl[i].birthdate], BirthdateProps)
    IN [ person |-> IF person = Null THEN Null
                    ELSE [prop \in PersonProps \cup {"identifier", "birthdate"} |->
                            IF prop = "identifier" THEN sl[1].person.identifier
                            ELSE IF prop = "birthdate" THEN sl[1].person.birthdate
                            ELSE person[prop]],
         identifier |-> identifier,
         birthdate |-> birthdate ]

constructMaster(sl) ==
  IF \E i \in 1..Len(sl) : sl[i] = Null THEN TypeError   \* r.person of null
  ELSE
    LET person == constructMasterForResource([i \in 1..Len(sl) |-> sl[i].person], PersonProps)
        identifier == constructMasterForResource([i \in 1..Len(sl) |-> sl[i].identifier], IdentifierProps)
        birthdate == constructMasterForResource([i \in 1..Len(sl) |-> sl[i].birthdate], BirthdateProps)
    IN [ person |-> IF person = Null THEN Null
                    ELSE [prop \in PersonProps \cup {"identifier", "birthdate"} |->
                            IF prop = "identifier"
                              THEN (IF identifier = Null THEN JsNull ELSE identifier.uri)
                            ELSE IF prop = "birthdate"
                              THEN (IF birthdate = Null THEN JsNull ELSE birthdate.uri)
                            ELSE person[prop]],
         identifier |-> identifier,
         birthdate |-> birthdate ]

(***************************************************************************)
(* The update statements                                                    *)
(***************************************************************************)
InGraph(g, triples) == { <<g, t[1], t[2], t[3]>> : t \in triples }

\* The DELETE template of deleteSlaveData, instantiated for every solution of
\* its WHERE clause in GRAPH g
SlaveTemplate(st, g, uri) ==
  LET s == sparqlEscapeUri(uri)
      ofS(p) == { <<s, p, o>> : o \in Objs(st, g, s, p) }
      births == Objs(st, g, s, HeeftGeboorte)
      ids == Objs(st, g, s, AdmsIdentifier)
  IN IF \/ <<g, s, RdfType, PersonClass>> \notin st
        \/ Objs(st, g, s, MuUuid) = {}
        \/ ids = {}
       THEN {}
       ELSE {<<s, RdfType, PersonClass>>}
            \cup ofS(MuUuid) \cup ofS(AdmsIdentifier) \cup ofS(FoafFamilyName)
            \cup ofS(FoafName) \cup ofS(GebruikteVoornaam) \cup ofS(HeeftGeboorte)
            \cup ofS(Geslacht)
            \cup UNION { {<<b, RdfType, GeboorteClass>>}
                         \cup { <<b, MuUuid, o>> : o \in Objs(st, g, b, MuUuid) }
                         \cup { <<b, Datum, o>> : o \in Objs(st, g, b, Datum) } : b \in births }
            \cup UNION { {<<i, RdfType, IdentifierClass>>}
                         \cup { <<i, MuUuid, o>> : o \in Objs(st, g, i, MuUuid) }
                         \cup { <<i, SkosNotation, o>> : o \in Objs(st, g, i, SkosNotation) } : i \in ids }

\* The DELETE template names no graph: its triples leave the default graph.
deleteSlaveData(st, dg, uri, g) == st \ InGraph(dg, SlaveTemplate(st, g, uri))

MasterStatements(m) ==
  LET personUri == sparqlEscapeUri(m.person.uri)
      lit(s, p, v) == IF Truthy(v) THEN {<<s, p, sparqlEscapeString(v)>>} ELSE {}
      ref(s, p, v) == IF Truthy(v) THEN {<<s, p, sparqlEscapeUri(v)>>} ELSE {}
  IN {<<personUri, RdfType, PersonClass>>,
      <<personUri, MuUuid, sparqlEscapeString(m.person.uuid)>>}
     \cup lit(personUri, FoafFamilyName, m.person.familyName)
     \cup lit(personUri, FoafName, m.person.name)
     \cup lit(personUri, GebruikteVoornaam, m.person.firstName)
     \cup ref(personUri, AdmsIdentifier, m.person.identifier)
     \cup ref(personUri, HeeftGeboorte, m.person.birthdate)
     \cup ref(personUri, Geslacht, m.person.gender)
     \cup (IF m.identifier = Null THEN {}
           ELSE LET identifierUri == sparqlEscapeUri(m.identifier.uri)
                IN {<<identifierUri, RdfType, IdentifierClass>>}
                   \cup lit(identifierUri, MuUuid, m.identifier.uuid)
                   \cup lit(identifierUri, SkosNotation, m.identifier.notation))
     \cup (IF m.birthdate = Null THEN {}
           ELSE LET birthdateUri == sparqlEscapeUri(m.birthdate.uri)
                IN {<<birthdateUri, RdfType, GeboorteClass>>}
                   \cup lit(birthdateUri, MuUuid, m.birthdate.uuid)
                   \cup (IF Truthy(m.birthdate.date)
                           THEN {<<birthdateUri, Datum, XsdDate(m.birthdate.date)>>}
                           ELSE {}))

insertMasterData(st, m, g) == st \cup InGraph(g, MasterStatements(m))

\* as replaceSubject, without its DELETE clause
replaceSubject_NoDelete(st, masterUri, slaveUri, g) ==
  st \cup { <<g, sparqlEscapeUri(masterUri), q[3], q[4]>> :
             q \in { r \in st : r[1] = g /\ r[2] = sparqlEscapeUri(slaveUri) } }

\* first update of replaceSlaveUris: <slave> ?p ?o  ->  <master> ?p ?o
replaceSubject(st, masterUri, slaveUri, g) ==
  LET hit == { q \in st : q[1] = g /\ q[2] = sparqlEscapeUri(slaveUri) }
  IN (st \ hit) \cup { <<g, sparqlEscapeUri(masterUri), q[3], q[4]>> : q \in hit }

\* as replaceObject, without its INSERT clause
replaceObject_DeleteOnly(st, masterUri, slaveUri, g) ==
  st \ { q \in st : q[1] = g /\ q[4] = sparqlEscapeUri(slaveUri) }

\* second update of replaceSlaveUris: ?s ?p <slave>  ->  ?s ?p <master>
replaceObject(st, masterUri, slaveUri, g) ==
  LET hit == { q \in st : q[1] = g /\ q[4] = sparqlEscapeUri(slaveUri) }
  IN (st \ hit) \cup { <<g, q[2], q[3], sparqlEscapeUri(masterUri)>> : q \in hit }

\* as insertSameAs, with the link pointing from the master to the slave
insertSameAs_Reversed(st, masterUri, slaveUri, g) ==
  st \cup { <<g, sparqlEscapeUri(masterUri), OwlSameAs, sparqlEscapeUri(slaveUri)>> }

insertSameAs(st, masterUri, slaveUri, g) ==
  st \cup { <<g, sparqlEscapeUri(slaveUri), OwlSameAs, sparqlEscapeUri(masterUri)>> }

(***************************************************************************)
(* Initial stores: two person records, each with its identifier and,       *)
(* depending on the attributes chosen, a uuid, a name and gender, a birth   *)
(* event; a mandate refers to each person and each person has an account.   *)
(***************************************************************************)
Full == [uuid |-> TRUE, name |-> TRUE, birth |-> TRUE]
NameOnly == [uuid |-> TRUE, name |-> TRUE, birth |-> FALSE]
BirthOnly == [uuid |-> TRUE, name |-> FALSE, birth |-> TRUE]
NoUuid == [uuid |-> FALSE, name |-> TRUE, birth |-> FALSE]
AttrPairs == { <<NameOnly, BirthOnly>>, <<Full, Full>>, <<NameOnly, NoUuid>> }

PersonRecord(first, g, p, id, key, a) ==
  LET s == sparqlEscapeUri(p)
      i == sparqlEscapeUri(id)
      b == sparqlEscapeUri(IF first THEN "b1" ELSE "b2")
  IN InGraph(g,
       {<<s, RdfType, PersonClass>>,
        <<s, AdmsIdentifier, i>>,
        <<i, RdfType, IdentifierClass>>,
        <<i, MuUuid, sparqlEscapeString(IF id = "i1" THEN "iu1" ELSE "iu2")>>,
        <<i, SkosNotation, sparqlEscapeString(key)>>,
        <<sparqlEscapeUri(IF first THEN "m1" ELSE "m2"), "mandaat:isBestuurlijkeAliasVan", s>>,
        <<s, "foaf:account", sparqlEscapeUri(IF first THEN "acc1" ELSE "acc2")>>}
       \cup (IF a.uuid
               THEN {<<s, MuUuid, sparqlEscapeString(IF p = "p1" THEN "u1" ELSE "u2")>>}
               ELSE {})
       \cup (IF a.name
               THEN IF first THEN {<<s, FoafName, sparqlEscapeString("Jones")>>}
                    ELSE {<<s, FoafName, sparqlEscapeString("Smith")>>,
                          <<s, Geslacht, sparqlEscapeUri("gender:F")>>}
               ELSE {})
       \cup (IF a.birth
               THEN {<<s, HeeftGeboorte, b>>,
                     <<b, RdfType, GeboorteClass>>,
                     <<b, MuUuid, sparqlEscapeString(IF first THEN "bu1" ELSE "bu2")>>,
                     <<b, Datum, XsdDate(IF first THEN "1980-01-01" ELSE "1990-02-02")>>}
               ELSE {}))

\* an identifier resource has one notation: the second record shares i1 only with key K1
SecondRecords ==
  { c \in [g : {"G1", "G2"}, p : {"p1", "p2"}, id : {"i1", "i2"}, key : Keys] :
      c.id = "i1" => c.key = "K1" }

InitialStores ==
  { PersonRecord(TRUE, "G1", "p1", "i1", "K1", a[1])
      \cup PersonRecord(FALSE, c.g, c.p, c.id, c.key, a[2]) :
      a \in AttrPairs, c \in SecondRecords }

\* no second call is running
NoOther == [pc |-> "none"]

\* the single-key endpoint: one call per request, nothing else running
SingleKeyEnv ==
  /\ handler = "/reconciliate/:rrn"
  /\ loop = "none"
  /\ rrns = <<>>
  /\ delta = <<>>
  /\ identificators = <<>>
  /\ loopI = 0
  /\ ack = "none"
  /\ other = NoOther

Init ==
  /\ store \in InitialStores
  /\ defaultGraph \in Graphs
  /\ pc = "idle"
  /\ rrn = "K1"
  /\ isDryRun = FALSE
  /\ persons = <<>>
  /\ slaves = <<>>
  /\ master = NoMaster
  /\ idx = 0
  /\ res = "none"
  /\ response = "none"
  /\ updates = 0
  /\ store0 = store
  /\ runs = 0
  /\ fails = 0
  /\ log = <<>>
  /\ SingleKeyEnv

(***************************************************************************)
(* POST /reconciliate/:rrn and reconciliatePerson, one action per store     *)
(* call                                                                     *)
(***************************************************************************)
StoreCalls == {"getDuplicatePersonUris", "getPerson", "deleteSlaveData", "insertMasterData",
               "replaceSubject", "replaceObject", "insertSameAs"}

\* the handler answers: res.status(204) or next(new Error(..))
Respond(status, at, st, n) ==
  /\ pc' = "idle"
  /\ response' = status
  /\ log' = Append(log, [rrn |-> rrn, isDryRun |-> isDryRun, response |-> status,
                         updates |-> n, failedAt |-> at, changed |-> (st # store0),
                         persons |-> persons'])

\* reconciliatePerson(key, { isDryRun: dry }) is called: it runs up to its first
\* await, the query of getDuplicatePersonUris
Call(key, dry) ==
  /\ runs' = runs + 1
  /\ rrn' = key
  /\ isDryRun' = dry
  /\ pc' = "getDuplicatePersonUris"
  /\ persons' = <<>>
  /\ slaves' = <<>>
  /\ master' = NoMaster
  /\ idx' = 0
  /\ res' = "none"
  /\ response' = "pending"
  /\ updates' = 0
  /\ store0' = store
  /\ UNCHANGED <<store, defaultGraph, fails, log>>

Request(key, dry) ==
  /\ pc = "idle"
  /\ handler = "/reconciliate/:rrn"
  /\ runs < MaxRuns
  /\ Call(key, dry)
  /\ UNCHANGED env

Resolve ==
  /\ pc = "getDuplicatePersonUris"
  /\ \E order \in Orderings(getDuplicatePersonUris(store, rrn)) : persons' = order
  /\ UNCHANGED <<store, defaultGraph, rrn, isDryRun, slaves, master, res, updates,
                 store0, runs, fails, env>>
  /\ IF Len(persons') > 1
       THEN /\ pc' = "getPerson"
            /\ idx' = 1
            /\ UNCHANGED <<response, log>>
       ELSE /\ idx' = idx
            /\ Respond("204", "none", store, updates)

\* as AfterMaster, with the isDryRun option not looked at
AfterMaster_NoDryRun(m, dry) == IF m = TypeError THEN "throw" ELSE "replace"

\* what reconciliatePerson does once the slaves are fetched: constructMaster
\* throws, or the master is reported (dry-run), or the slaves are replaced
AfterMaster(m, dry) ==
  IF m = TypeError THEN "throw" ELSE IF dry THEN "report" ELSE "replace"

Fetch ==
  /\ pc = "getPerson"
  /\ \E slave \in getPerson(store, persons[idx].graph, persons[idx].uri) :
        slaves' = Append(slaves, slave)
  /\ UNCHANGED <<store, defaultGraph, rrn, isDryRun, persons, updates, store0, runs, fails, env>>
  /\ IF idx < Len(persons)
       THEN /\ idx' = idx + 1
            /\ UNCHANGED <<pc, master, res, response, log>>
       ELSE /\ master' = constructMaster(slaves')
            /\ IF AfterMaster(master', isDryRun) = "throw"
                 THEN /\ UNCHANGED <<idx, res>>
                      /\ Respond("500", "constructMaster", store, updates)
               ELSE IF AfterMaster(master', isDryRun) = "report"
                 THEN /\ UNCHANGED <<idx, res>>
                      /\ Respond("204", "none", store, updates)
               ELSE /\ pc' = "deleteSlaveData"
                    /\ idx' = 1
                    /\ res' = "none"
                    /\ UNCHANGED <<response, log>>

\* replaceSlaveWithMaster(slave, master), step by step
Slave == slaves[idx]

\* what follows the redirect of one resource of the slave
AfterResource(st) ==
  IF res = "person"
    THEN /\ pc' = "replaceSubject"
         /\ res' = "identifier"
         /\ UNCHANGED <<idx, response, log>>
  ELSE IF res = "identifier" /\ Slave.birthdate # Null
    THEN /\ pc' = "replaceSubject"
         /\ res' = "birthdate"
         /\ UNCHANGED <<idx, response, log>>
  ELSE IF idx < Len(slaves)
    THEN /\ pc' = "deleteSlaveData"
         /\ idx' = idx + 1
         /\ res' = "none"
         /\ UNCHANGED <<response, log>>
  ELSE /\ UNCHANGED <<idx, res>>
       /\ Respond("204", "none", st, updates + 1)

Delete ==
  /\ pc = "deleteSlaveData"
  /\ store' = deleteSlaveData(store, defaultGraph, Slave.person.uri, Slave.graph)
  /\ updates' = updates + 1
  /\ pc' = "insertMasterData"
  /\ UNCHANGED <<defaultGraph, rrn, isDryRun, persons, slaves, master, idx, res, response,
                 store0, runs, fails, log, env>>

Insert ==
  /\ pc = "insertMasterData"
  /\ store' = insertMasterData(store, master, Slave.graph)
  /\ updates' = updates + 1
  /\ pc' = "replaceSubject"
  /\ res' = "person"
  /\ UNCHANGED <<defaultGraph, rrn, isDryRun, persons, slaves, master, idx, response,
                 store0, runs, fails, log, env>>

ReplaceSubject ==
  /\ pc = "replaceSubject"
  /\ store' = replaceSubject(store, master[res].uri, Slave[res].uri, Slave.graph)
  /\ updates' = updates + 1
  /\ pc' = "replaceObject"
  /\ UNCHANGED <<defaultGraph, rrn, isDryRun, persons, slaves, master, idx, res, response,
                 store0, runs, fails, log, env>>

ReplaceObject ==
  /\ pc = "replaceObject"
  /\ store' = replaceObject(store, master[res].uri, Slave[res].uri, Slave.graph)
  /\ updates' = updates + 1
  /\ pc' = "insertSameAs"
  /\ UNCHANGED <<defaultGraph, rrn, isDryRun, persons, slaves, master, idx, res, response,
                 store0, runs, fails, log, env>>

SameAs ==
  /\ pc = "insertSameAs"
  /\ store' = insertSameAs(store, master[res].uri, Slave[res].uri, Slave.graph)
  /\ updates' = updates + 1
  /\ UNCHANGED <<defaultGraph, rrn, isDryRun, persons, slaves, master, store0, runs, fails, env>>
  /\ AfterResource(store')

\* as Fail, with the rejected call swallowed and issued again
Fail_Retry ==
  /\ pc \in StoreCalls
  /\ fails < MaxFails
  /\ fails' = fails + 1
  /\ UNCHANGED <<store, defaultGraph, pc, rrn, isDryRun, persons, slaves, master, idx, res,
                 response, updates, store0, runs, log, env>>

\* a query or update call rejects: the exception leaves reconciliatePerson and the
\* handler's catch block answers with the error
Fail ==
  /\ pc \in StoreCalls
  /\ fails < MaxFails
  /\ fails' = fails + 1
  /\ UNCHANGED <<store, defaultGraph, rrn, isDryRun, persons, slaves, master, idx, res,
                 updates, store0, runs, env>>
  /\ Respond("500", pc, store, updates)

Next ==
  \/ \E key \in Keys, dry \in BOOLEAN : Request(key, dry)
  \/ Resolve
  \/ Fetch
  \/ Delete
  \/ Insert
  \/ ReplaceSubject
  \/ ReplaceObject
  \/ SameAs
  \/ Fail

Spec == Init /\ [][Next]_vars

TypeOK ==
  /\ pc \in StoreCalls \cup {"idle", "getDuplicateIdentificators", "getRrn"}
  /\ defaultGraph \in Graphs
  /\ updates \in Nat
  /\ Len(log) <= MaxRuns

(***************************************************************************)
(* POST /reconciliate: the keys of getDuplicateIdentificators are handed to *)
(* reconciliateBulk, which is not awaited, and the handler answers 202      *)
(***************************************************************************)
\* two keys with two persons each; the first key may have a third person, one
\* without mu:uuid
BulkStores ==
  { PersonRecord(TRUE, "G1", "p1", "i1", "K1", a[1])
      \cup PersonRecord(FALSE, "G2", "p2", "i2", "K1", a[2])
      \cup PersonRecord(TRUE, "G1", "p3", "i3", "K2", NameOnly)
      \cup PersonRecord(FALSE, g, "p4", "i4", "K2", NameOnly)
      \cup extra :
      a \in {<<NameOnly, BirthOnly>>}, g \in {"G1", "G2"},
      extra \in {{}, PersonRecord(FALSE, "G2", "p5", "i5", "K1", NoUuid)} }

BulkInit ==
  /\ store \in BulkStores
  /\ defaultGraph \in Graphs
  /\ pc = "idle"
  /\ rrn = "K1"
  /\ isDryRun = FALSE
  /\ persons = <<>>
  /\ slaves = <<>>
  /\ master = NoMaster
  /\ idx = 0
  /\ res = "none"
  /\ response = "none"
  /\ updates = 0
  /\ store0 = store
  /\ runs = 0
  /\ fails = 0
  /\ log = <<>>
  /\ handler = "/reconciliate"
  /\ loop = "none"
  /\ rrns = <<>>
  /\ delta = <<>>
  /\ identificators = <<>>
  /\ loopI = 0
  /\ ack = "none"
  /\ other = NoOther

PostReconciliate(dry) ==
  /\ pc = "idle"
  /\ handler = "/reconciliate"
  /\ loop = "none"
  /\ ack = "none"
  /\ pc' = "getDuplicateIdentificators"
  /\ isDryRun' = dry
  /\ ack' = "pending"
  /\ UNCHANGED <<store, defaultGraph, rrn, persons, slaves, master, idx, res, response,
                 updates, store0, runs, fails, log, handler, loop, rrns, delta,
                 identificators, loopI, other>>

\* as AckWhenCalled, with the handler waiting for reconciliateBulk before it answers
AckWhenCalled_Awaited == "pending"

\* reconciliateBulk(rrns) is called without await: res.status(202).end() follows
AckWhenCalled == "202"

\* getDuplicateIdentificators returns: reconciliateBulk starts on the first key
\* and the handler answers
ReconciliateBulk ==
  /\ pc = "getDuplicateIdentificators"
  /\ \E order \in Orderings(getDuplicateIdentificators(store)) : rrns' = order
  /\ ack' = AckWhenCalled
  /\ loopI' = 1
  /\ UNCHANGED <<handler, delta, identificators, other>>
  /\ IF rrns' = <<>>
       THEN /\ loop' = "done"
            /\ pc' = "idle"
            /\ UNCHANGED <<store, defaultGraph, rrn, isDryRun, persons, slaves, master, idx,
                           res, response, updates, store0, runs, fails, log>>
       ELSE /\ loop' = "running"
            /\ Call(rrns'[1], isDryRun)

\* as AfterKey, with every key in a try block of its own
AfterKey_Isolated(status) == "continue"

\* await reconciliatePerson(rrn, ..) inside the for loop: a rejection leaves the
\* loop and reconciliateBulk, whose promise nobody holds
AfterKey(status) == IF status = "204" THEN "continue" ELSE "abort"

\* the call for rrns[i] has settled
BulkNextKey ==
  /\ pc = "idle"
  /\ handler = "/reconciliate"
  /\ loop = "running"
  /\ UNCHANGED <<handler, rrns, delta, identificators, ack, other>>
  /\ IF AfterKey(response) = "abort"
       THEN /\ loop' = "aborted"
            /\ UNCHANGED <<store, defaultGraph, pc, rrn, isDryRun, persons, slaves, master,
                           idx, res, response, updates, store0, runs, fails, log, loopI>>
     ELSE IF loopI < Len(rrns)
       THEN /\ loopI' = loopI + 1
            /\ Call(rrns[loopI + 1], isDryRun)
            /\ UNCHANGED loop
     ELSE /\ loop' = "done"
          /\ loopI' = loopI + 1
          /\ UNCHANGED <<store, defaultGraph, pc, rrn, isDryRun, persons, slaves, master,
                         idx, res, response, updates, store0, runs, fails, log>>

\* the query of getDuplicateIdentificators rejects: the handler's catch block answers
FinderFail ==
  /\ pc = "getDuplicateIdentificators"
  /\ fails < MaxFails
  /\ fails' = fails + 1
  /\ pc' = "idle"
  /\ ack' = "500"
  /\ loop' = "failed"
  /\ UNCHANGED <<store, defaultGraph, rrn, isDryRun, persons, slaves, master, idx, res,
                 response, updates, store0, runs, log, handler, rrns, delta,
                 identificators, loopI, other>>

BulkNext ==
  \/ \E dry \in BOOLEAN : PostReconciliate(dry)
  \/ ReconciliateBulk
  \/ BulkNextKey
  \/ FinderFail
  \/ Resolve
  \/ Fetch
  \/ Delete
  \/ Insert
  \/ ReplaceSubject
  \/ ReplaceObject
  \/ SameAs
  \/ Fail

SpecBulk == BulkInit /\ [][BulkNext]_vars

(***************************************************************************)
(* POST /delta: a reconciliatePerson call for every identificator found in  *)
(* the inserts of the delta message, then 202                               *)
(***************************************************************************)
MaxChangeSets == 2

\* flatten(delta.map(changeSet => changeSet.inserts))
RECURSIVE flatten(_)
flatten(d) == IF d = <<>> THEN <<>> ELSE Head(d).inserts \o flatten(Tail(d))

isIdentificatorTriple(triple) == triple.predicate = AdmsIdentifier

\* as getIdentificators, with every inserted triple taken for an identificator
getIdentificators_NoFilter(d) ==
  [k \in 1..Len(flatten(d)) |-> flatten(d)[k].object]

getIdentificators(d) ==
  LET inserts == SelectSeq(flatten(d), isIdentificatorTriple)
  IN [k \in 1..Len(inserts) |-> inserts[k].object]

\* getRrn(identificator): the notation of the identifier
getRrn(st, identificator) ==
  { q[4].v : q \in { r \in st : r[2] = sparqlEscapeUri(identificator) /\ r[3] = SkosNotation } }

\* delta messages: change sets with at most one inserted triple each
InsertedTriples ==
  [predicate : {AdmsIdentifier, FoafName}, object : {"i1", "i2"}]
ChangeSets == {[inserts |-> <<>>]} \cup { [inserts |-> <<t>>] : t \in InsertedTriples }
Deltas == UNION { [1..n -> ChangeSets] : n \in 1..MaxChangeSets }

DeltaStores ==
  { PersonRecord(TRUE, "G1", "p1", "i1", "K1", NameOnly)
      \cup PersonRecord(FALSE, c.g, c.p, c.id, c.key, BirthOnly) : c \in SecondRecords }

DeltaInit ==
  /\ store \in DeltaStores
  /\ defaultGraph \in Graphs
  /\ pc = "idle"
  /\ rrn = "K1"
  /\ isDryRun = FALSE
  /\ persons = <<>>
  /\ slaves = <<>>
  /\ master = NoMaster
  /\ idx = 0
  /\ res = "none"
  /\ response = "none"
  /\ updates = 0
  /\ store0 = store
  /\ runs = 0
  /\ fails = 0
  /\ log = <<>>
  /\ handler = "/delta"
  /\ loop = "none"
  /\ rrns = <<>>
  /\ delta = <<>>
  /\ identificators = <<>>
  /\ loopI = 0
  /\ ack = "none"
  /\ other = NoOther

\* the message arrives: 204 when it has no identificator, or else the loop starts
\* with getRrn for the first one
PostDelta(d) ==
  /\ pc = "idle"
  /\ handler = "/delta"
  /\ ack = "none"
  /\ \A k \in 1..Len(getIdentificators(d)) : getRrn(store, getIdentificators(d)[k]) # {}
  /\ delta' = d
  /\ identificators' = getIdentificators(d)
  /\ IF identificators' = <<>>
       THEN /\ ack' = "204"
            /\ loop' = "done"
            /\ UNCHANGED <<pc, loopI>>
       ELSE /\ ack' = "pending"
            /\ loop' = "running"
            /\ loopI' = 1
            /\ pc' = "getRrn"
  /\ UNCHANGED <<store, defaultGraph, rrn, isDryRun, persons, slaves, master, idx, res,
                 response, updates, store0, runs, fails, log, handler, rrns, other>>

\* getRrn returns and reconciliatePerson(rrn) is called, without options; with no
\* notation left for the identificator there is no key to call it with and the
\* catch block of the loop answers
GetRrn ==
  /\ pc = "getRrn"
  /\ IF getRrn(store, identificators[loopI]) # {}
       THEN /\ \E key \in getRrn(store, identificators[loopI]) : Call(key, FALSE)
            /\ UNCHANGED env
       ELSE /\ pc' = "idle"
            /\ ack' = "500"
            /\ loop' = "aborted"
            /\ UNCHANGED <<store, defaultGraph, rrn, isDryRun, persons, slaves, master, idx,
                           res, response, updates, store0, runs, fails, log, handler, rrns,
                           delta, identificators, loopI, other>>

\* the call for the identificator has settled: next(e), the next identificator,
\* or 202 after the last one
DeltaNextKey ==
  /\ pc = "idle"
  /\ handler = "/delta"
  /\ loop = "running"
  /\ UNCHANGED <<store, defaultGraph, rrn, isDryRun, persons, slaves, master, idx, res,
                 response, updates, store0, runs, fails, log, handler, rrns, delta,
                 identificators, other>>
  /\ IF response = "500"
       THEN /\ ack' = "500"
            /\ loop' = "aborted"
            /\ UNCHANGED <<pc, loopI>>
     ELSE IF loopI < Len(identificators)
       THEN /\ loopI' = loopI + 1
            /\ pc' = "getRrn"
            /\ UNCHANGED <<ack, loop>>
     ELSE /\ ack' = "202"
          /\ loop' = "done"
          /\ UNCHANGED <<pc, loopI>>

\* getRrn rejects: the catch block of the loop answers with the error
GetRrnFail ==
  /\ pc = "getRrn"
  /\ fails < MaxFails
  /\ fails' = fails + 1
  /\ pc' = "idle"
  /\ ack' = "500"
  /\ loop' = "aborted"
  /\ UNCHANGED <<store, defaultGraph, rrn, isDryRun, persons, slaves, master, idx, res,
                 response, updates, store0, runs, log, handler, rrns, delta,
                 identificators, loopI, other>>

DeltaNext ==
  \/ \E d \in Deltas : PostDelta(d)
  \/ GetRrn
  \/ DeltaNextKey
  \/ GetRrnFail
  \/ Resolve
  \/ Fetch
  \/ Delete
  \/ Insert
  \/ ReplaceSubject
  \/ ReplaceObject
  \/ SameAs
  \/ Fail

SpecDelta == DeltaInit /\ [][DeltaNext]_vars

(***************************************************************************)
(* A store that was reconciled before and has since received another person *)
(* for the same key                                                         *)
(***************************************************************************)
\* replaceSlaveUris followed by insertSameAs, for one resource of the slave
redirect(st, m, slave, kind) ==
  insertSameAs(
    replaceObject(
      replaceSubject(st, m[kind].uri, slave[kind].uri, slave.graph),
      m[kind].uri, slave[kind].uri, slave.graph),
    m[kind].uri, slave[kind].uri, slave.graph)

\* replaceSlaveWithMaster(slave, master) with every update call succeeding
replaceSlaveWithMaster(st, dg, slave, m) ==
  LET deleted == deleteSlaveData(st, dg, slave.person.uri, slave.graph)
      inserted == insertMasterData(deleted, m, slave.graph)
      identity == redirect(inserted, m, slave, "person")
      identifier == redirect(identity, m, slave, "identifier")
  IN IF slave.birthdate # Null THEN redirect(identifier, m, slave, "birthdate") ELSE identifier

\* for (let slave of slaves) await replaceSlaveWithMaster(slave, master)
RECURSIVE replaceSlaves(_, _, _, _)
replaceSlaves(st, dg, sl, m) ==
  IF sl = <<>> THEN st
  ELSE replaceSlaves(replaceSlaveWithMaster(st, dg, Head(sl), m), dg, Tail(sl), m)

\* the store after a live reconciliatePerson for candidates p1 of G1 and p2 of G2,
\* fetched in that order
EarlierRun(dg, a) ==
  LET st == PersonRecord(TRUE, "G1", "p1", "i1", "K1", a[1])
              \cup PersonRecord(FALSE, "G2", "p2", "i2", "K1", a[2])
      sl == << CHOOSE b \in getPerson(st, "G1", "p1") : TRUE,
               CHOOSE b \in getPerson(st, "G2", "p2") : TRUE >>
  IN replaceSlaves(st, dg, sl, constructMaster(sl))

\* the person added since, in any graph
LaterRecords == { PersonRecord(FALSE, g, "p3", "i3", "K1", a) : g \in Graphs, a \in {NameOnly, Full} }

LinksInit ==
  /\ defaultGraph \in Graphs
  /\ \E later \in LaterRecords :
        store = EarlierRun(defaultGraph, <<NameOnly, BirthOnly>>) \cup later
  /\ pc = "idle"
  /\ rrn = "K1"
  /\ isDryRun = FALSE
  /\ persons = <<>>
  /\ slaves = <<>>
  /\ master = NoMaster
  /\ idx = 0
  /\ res = "none"
  /\ response = "none"
  /\ updates = 0
  /\ store0 = store
  /\ runs = 0
  /\ fails = 0
  /\ log = <<>>
  /\ SingleKeyEnv

\* one live request for the key, after the later person arrived
RequestAgain ==
  /\ runs = 0
  /\ Request("K1", FALSE)

LinksNext ==
  \/ RequestAgain
  \/ Resolve
  \/ Fetch
  \/ Delete
  \/ Insert
  \/ ReplaceSubject
  \/ ReplaceObject
  \/ SameAs
  \/ Fail

SpecLinks == LinksInit /\ [][LinksNext]_vars

(***************************************************************************)
(* A store in which a graph without a person for the key holds a triple     *)
(* about one of the candidates                                              *)
(***************************************************************************)
\* what G3 may hold: nothing, or the name of p2 (p2 is no person:Person there)
ElsewhereTriples ==
  { {}, InGraph("G3", {<<sparqlEscapeUri("p2"), FoafName, sparqlEscapeString("Smith")>>}) }

FrameStores ==
  { PersonRecord(TRUE, "G1", "p1", "i1", "K1", NameOnly)
      \cup PersonRecord(FALSE, g, "p2", "i2", "K1", Full)
      \cup elsewhere : g \in {"G1", "G2"}, elsewhere \in ElsewhereTriples }

FrameInit ==
  /\ store \in FrameStores
  /\ defaultGraph \in Graphs
  /\ pc = "idle"
  /\ rrn = "K1"
  /\ isDryRun = FALSE
  /\ persons = <<>>
  /\ slaves = <<>>
  /\ master = NoMaster
  /\ idx = 0
  /\ res = "none"
  /\ response = "none"
  /\ updates = 0
  /\ store0 = store
  /\ runs = 0
  /\ fails = 0
  /\ log = <<>>
  /\ SingleKeyEnv

SpecFrame == FrameInit /\ [][LinksNext]_vars

(***************************************************************************)
(* Two reconciliatePerson calls for one key at the same time: the call of   *)
(* POST /reconciliate/:rrn and a second live call (started by the cron run  *)
(* or by a delta message), interleaved at their store calls                 *)
(***************************************************************************)
OverlapStores ==
  { PersonRecord(TRUE, "G1", "p1", "i1", "K1", NameOnly)
      \cup PersonRecord(FALSE, "G2", "p2", "i2", "K1", BirthOnly) }

OverlapInit ==
  /\ store \in OverlapStores
  /\ defaultGraph \in Graphs
  /\ pc = "idle"
  /\ rrn = "K1"
  /\ isDryRun = FALSE
  /\ persons = <<>>
  /\ slaves = <<>>
  /\ master = NoMaster
  /\ idx = 0
  /\ res = "none"
  /\ response = "none"
  /\ updates = 0
  /\ store0 = store
  /\ runs = 0
  /\ fails = 0
  /\ log = <<>>
  /\ SingleKeyEnv

\* the second call starts while the first is running: reconciliatePerson("K1") up
\* to its first await
OtherStart ==
  /\ other = NoOther
  /\ pc \in StoreCalls
  /\ other' = [pc |-> "getDuplicatePersonUris", persons |-> <<>>, slaves |-> <<>>,
                master |-> NoMaster, idx |-> 0, res |-> "none"]
  /\ UNCHANGED <<store, defaultGraph, pc, rrn, isDryRun, persons, slaves, master, idx, res,
                 response, updates, store0, runs, fails, log, handler, loop, rrns, delta,
                 identificators, loopI, ack>>

\* where the second call stands once the redirect of one resource of its slave
\* is done (replaceSlaveWithMaster, then the next slave)
OtherAfterResource(o) ==
  IF o.res = "person"
    THEN [o EXCEPT !.pc = "replaceSubject", !.res = "identifier"]
  ELSE IF o.res = "identifier" /\ o.slaves[o.idx].birthdate # Null
    THEN [o EXCEPT !.pc = "replaceSubject", !.res = "birthdate"]
  ELSE IF o.idx < Len(o.slaves)
    THEN [o EXCEPT !.pc = "deleteSlaveData", !.idx = o.idx + 1, !.res = "none"]
  ELSE [o EXCEPT !.pc = "done"]

\* where the second call stands once its last bundle is fetched
OtherAfterFetch(o) ==
  LET m == constructMaster(o.slaves)
  IN IF AfterMaster(m, FALSE) = "throw"
       THEN [o EXCEPT !.pc = "threw", !.master = m]
       ELSE [o EXCEPT !.pc = "deleteSlaveData", !.master = m, !.idx = 1, !.res = "none"]

\* one store call of the second call returns
OtherStep ==
  /\ other.pc \in StoreCalls
  /\ UNCHANGED <<defaultGraph, pc, rrn, isDryRun, persons, slaves, master, idx, res,
                 response, updates, store0, runs, fails, log, handler, loop, rrns, delta,
                 identificators, loopI, ack>>
  /\ LET o == other
         slave == o.slaves[o.idx]
     IN
     IF o.pc = "getDuplicatePersonUris"
       THEN /\ \E order \in Orderings(getDuplicatePersonUris(store, "K1")) :
                  other' = IF Len(order) > 1
                             THEN [o EXCEPT !.pc = "getPerson", !.persons = order, !.idx = 1]
                             ELSE [o EXCEPT !.pc = "done", !.persons = order]
            /\ store' = store
     ELSE IF o.pc = "getPerson"
       THEN /\ \E b \in getPerson(store, o.persons[o.idx].graph, o.persons[o.idx].uri) :
                  other' = IF o.idx < Len(o.persons)
                             THEN [o EXCEPT !.slaves = Append(o.slaves, b), !.idx = o.idx + 1]
                             ELSE OtherAfterFetch([o EXCEPT !.slaves = Append(o.slaves, b)])
            /\ store' = store
     ELSE IF o.pc = "deleteSlaveData"
       THEN /\ store' = deleteSlaveData(store, defaultGraph, slave.person.uri, slave.graph)
            /\ other' = [o EXCEPT !.pc = "insertMasterData"]
     ELSE IF o.pc = "insertMasterData"
       THEN /\ store' = insertMasterData(store, o.master, slave.graph)
            /\ other' = [o EXCEPT !.pc = "replaceSubject", !.res = "person"]
     ELSE IF o.pc = "replaceSubject"
       THEN /\ store' = replaceSubject(store, o.master[o.res].uri, slave[o.res].uri, slave.graph)
            /\ other' = [o EXCEPT !.pc = "replaceObject"]
     ELSE IF o.pc = "replaceObject"
       THEN /\ store' = replaceObject(store, o.master[o.res].uri, slave[o.res].uri, slave.graph)
            /\ other' = [o EXCEPT !.pc = "insertSameAs"]
     ELSE /\ store' = insertSameAs(store, o.master[o.res].uri, slave[o.res].uri, slave.graph)
          /\ other' = OtherAfterResource(o)

OverlapNext ==
  \/ RequestAgain
  \/ Resolve
  \/ Fetch
  \/ Delete
  \/ Insert
  \/ ReplaceSubject
  \/ ReplaceObject
  \/ SameAs
  \/ OtherStart
  \/ OtherStep

SpecOverlap == OverlapInit /\ [][OverlapNext]_vars

(***************************************************************************)
(* constructMaster on its own: bundle lists drawn from a small value space, *)
(* the empty string among the attribute values                              *)
(***************************************************************************)
MaxBundles == 2

BundleValues ==
  { [ graph |-> "G1",
      person |-> [uri |-> u, uuid |-> "u1", identifier |-> "i1",
                  familyName |-> Undefined, name |-> n, firstName |-> Undefined,
                  gender |-> ge, birthdate |-> IF b = Null THEN Undefined ELSE b.uri],
      identifier |-> [uri |-> "i1", uuid |-> Undefined, notation |-> "K1"],
      birthdate |-> b ] :
      u \in {"p1", "p2"}, n \in {Undefined, "", "A", "B"}, ge \in {Undefined, "gender:F"},
      b \in {Null, [uri |-> "b1", uuid |-> Undefined, date |-> Undefined],
                   [uri |-> "b2", uuid |-> "bu2", date |-> "1980-01-01"]} }

MergeInit ==
  /\ slaves \in UNION { [1..n -> BundleValues] : n \in 1..MaxBundles }
  /\ pc = "constructMaster"
  /\ master = NoMaster
  /\ store = {}
  /\ defaultGraph = "G1"
  /\ rrn = "K1"
  /\ isDryRun = TRUE
  /\ persons = <<>>
  /\ idx = 0
  /\ res = "none"
  /\ response = "none"
  /\ updates = 0
  /\ store0 = {}
  /\ runs = 0
  /\ fails = 0
  /\ log = <<>>
  /\ SingleKeyEnv

Construct ==
  /\ pc = "constructMaster"
  /\ master' = constructMaster(slaves)
  /\ pc' = "constructed"
  /\ UNCHANGED <<store, defaultGraph, rrn, isDryRun, persons, slaves, idx, res, response,
                 updates, store0, runs, fails, log, env>>

MergeNext == Construct

SpecMerge == MergeInit /\ [][MergeNext]_vars

(***************************************************************************)
(* Properties                                                               *)
(***************************************************************************)
\* s is an Identity of graph g carrying an External Identifier with notation key
CarriesKey(st, g, s, key) ==
  /\ <<g, s, RdfType, PersonClass>> \in st
  /\ \E q \in st : /\ q[1] = g /\ q[2] = s /\ q[3] = AdmsIdentifier
                   /\ <<g, q[4], SkosNotation, sparqlEscapeString(key)>> \in st

Carriers(st, g, key) == { s \in Subjects(st, g) : CarriesKey(st, g, s, key) }

\* the running call was live, had a candidate group and has answered with success
LiveSuccess ==
  /\ pc = "idle" /\ response = "204" /\ ~isDryRun /\ Len(persons) > 1

Contributing == { persons[i].graph : i \in 1..Len(persons) }

\* C1: after a successful live reconcile(key) of a candidate group, every
\* contributing partition holds exactly one Identity carrying an External
\* Identifier with notation key, and it is the master's URI.
C1_OneIdentityPerPartition ==
  LiveSuccess =>
    \A g \in Contributing : Carriers(store, g, rrn) = {sparqlEscapeUri(master.person.uri)}

\* the running call has answered
Finished == pc = "idle" /\ runs > 0
Last == log[Len(log)]
UpdateCalls == {"deleteSlaveData", "insertMasterData", "replaceSubject", "replaceObject",
                "insertSameAs"}
MasterUri == sparqlEscapeUri(master.person.uri)
Mentions(q, t) == q[2] = t \/ q[4] = t

\* C2: after a successful live reconcile(key), every candidate Identity URI other
\* than the master's has exactly one outgoing owl:sameAs in the partition it was
\* found in, and it points to the master URI.
C2_OneLinkToMaster ==
  LiveSuccess =>
    \A i \in 1..Len(persons) :
      persons[i].uri # master.person.uri =>
        Objs(store, persons[i].graph, sparqlEscapeUri(persons[i].uri), OwlSameAs) = {MasterUri}

C2_Witness ==
  /\ LiveSuccess
  /\ \E i \in 1..Len(persons) :
       /\ persons[i].uri # master.person.uri
       /\ <<persons[i].graph, sparqlEscapeUri(persons[i].uri), OwlSameAs, MasterUri>> \in store

\* C3: when reconcile(key) runs twice in succession without store failure, the
\* first call live, the first call performs the mutations of its candidate group
\* and the second call finds no candidate and issues no update call.
C3_Idempotent ==
  (Len(log) >= 2 /\ Finished) =>
    \A i \in 1..(Len(log) - 1) :
      ( /\ log[i].rrn = log[i+1].rrn
        /\ log[i].response = "204" /\ ~log[i].isDryRun
        /\ log[i+1].response = "204" )
      => /\ log[i+1].updates = 0 /\ ~log[i+1].changed /\ log[i+1].persons = <<>>
         /\ log[i].persons # <<>> => (log[i].updates > 0 /\ log[i].changed)

C3_Witness ==
  /\ Finished /\ Len(log) = 2
  /\ log[1].rrn = log[2].rrn
  /\ log[1].response = "204" /\ ~log[1].isDryRun /\ log[1].updates > 0
  /\ log[2].response = "204" /\ ~log[2].isDryRun /\ log[2].updates = 0

\* the distinct Identity URIs that carry key somewhere in the store
Identities(st, key) == UNION { Carriers(st, g, key) : g \in Graphs }

\* C4: when the key has fewer than two resolvable Identities (the Resolver
\* yields fewer than two candidates), a reconcile(key) that meets no store
\* failure issues no update call, leaves the store unchanged and succeeds, live
\* or dry-run.
C4_NoDuplicateNoWrite ==
  ( /\ Finished
    /\ Last.failedAt \notin StoreCalls
    /\ (Len(persons) < 2 \/ Cardinality(Identities(store0, rrn)) < 2) )
  => (response = "204" /\ updates = 0 /\ store = store0)

C4_WitnessOne ==
  /\ Finished /\ response = "204" /\ ~isDryRun
  /\ Cardinality(Identities(store0, rrn)) = 1
  /\ \E g, h \in Graphs : g # h /\ Carriers(store0, g, rrn) # {} /\ Carriers(store0, h, rrn) # {}

\* C5: a dry-run reconcile(key) of a candidate group computes the Master Record
\* from the fetched bundles exactly as the live path does and issues no update
\* call: the store is the one the call started with.
C5_DryRun ==
  /\ (pc # "idle" /\ isDryRun) => (updates = 0 /\ store = store0)
  /\ (Finished /\ isDryRun /\ Last.failedAt = "none" /\ Len(persons) > 1)
       => (updates = 0 /\ store = store0 /\ master = constructMaster(slaves))
  /\ (pc \in UpdateCalls) => (~isDryRun /\ master = constructMaster(slaves))

C5_Witness ==
  /\ Finished /\ isDryRun /\ response = "204" /\ Len(persons) > 1
  /\ master # NoMaster /\ master.birthdate # Null /\ Truthy(master.person.name)

\* the triples of graph g that describe the master's three resources
RecordPredicates == {RdfType, MuUuid, AdmsIdentifier, FoafFamilyName, FoafName,
                     GebruikteVoornaam, HeeftGeboorte, Geslacht, Datum, SkosNotation}
MasterResources ==
  {MasterUri}
  \cup (IF master.identifier = Null THEN {} ELSE {sparqlEscapeUri(master.identifier.uri)})
  \cup (IF master.birthdate = Null THEN {} ELSE {sparqlEscapeUri(master.birthdate.uri)})
MasterCopy(st, g) ==
  { <<q[2], q[3], q[4]>> :
      q \in { r \in st : r[1] = g /\ r[2] \in MasterResources /\ r[3] \in RecordPredicates } }

\* C7: after a successful live reconcile(key), every contributing partition
\* holds the full Master Record triple set, and the copy is the same in every
\* contributing partition.
C7_MasterCopyEverywhere ==
  LiveSuccess =>
    \A g \in Contributing :
      /\ InGraph(g, MasterStatements(master)) \subseteq store
      /\ \A h \in Contributing : MasterCopy(store, g) = MasterCopy(store, h)

\* C9: a candidate the Record Fetcher does not find is nothing to merge: the
\* call completes successfully unless a store call fails.
C9_MissingDataIsNoError ==
  ( /\ Finished
    /\ \E i \in 1..Len(slaves) : slaves[i] = Null
    /\ Last.failedAt \notin StoreCalls )
  => response = "204"

\* C8: when a live reconcile(key) fails at an update call of a slave's rewrite
\* and the next reconcile(key) completes without failure, every partition that
\* contributed a candidate holds one Identity for the key, nothing there still
\* refers to another candidate URI, and each such URI has its Equivalence Link
\* to that Identity.
C8_RetryConverges ==
  ( /\ Finished /\ Len(log) = 2
    /\ log[1].failedAt \in UpdateCalls /\ ~log[1].isDryRun
    /\ log[2].rrn = log[1].rrn /\ ~log[2].isDryRun /\ log[2].response = "204" )
  => \A i \in 1..Len(log[1].persons) :
       LET g == log[1].persons[i].graph
           s == sparqlEscapeUri(log[1].persons[i].uri)
       IN /\ Cardinality(Carriers(store, g, rrn)) = 1
          /\ \A m \in Carriers(store, g, rrn) :
               s # m => /\ <<g, s, OwlSameAs, m>> \in store
                        /\ \A q \in store :
                             (q[1] = g /\ Mentions(q, s)) => q = <<g, s, OwlSameAs, m>>

\* C10: a store call that fails ends the call at once: the endpoint answers with
\* the error, the failed call is not repeated, the store keeps what was written
\* and no update call follows until another request arrives.
C10_FailurePropagates ==
  [][ /\ (fails' # fails) =>
           /\ pc' = "idle" /\ response' = "500"
           /\ store' = store /\ updates' = updates
           /\ log' = Append(log, log'[Len(log')]) /\ log'[Len(log')].failedAt = pc
      /\ (pc = "idle") => (store' = store /\ pc' = "getDuplicatePersonUris")
    ]_vars

C10_Witness ==
  /\ Finished /\ response = "500" /\ Last.failedAt = "replaceObject"
  /\ updates > 0 /\ store # store0 /\ idx < Len(slaves)

\* the sub-records of one kind that the bundles have, in bundle order
SubRecords(kind) == SelectSeq([i \in 1..Len(slaves) |-> slaves[i][kind]], LAMBDA r : r # Null)
PropsOf(kind) ==
  IF kind = "person" THEN PersonProps
  ELSE IF kind = "identifier" THEN IdentifierProps ELSE BirthdateProps

\* C6: per kind of sub-record and per attribute, the master has the value of the
\* first bundle whose sub-record defines the attribute, omits it iff no bundle
\* defines it, and the sub-record is absent iff no bundle has an attribute for it.
C6_FirstFoundWins ==
  pc = "constructed" =>
    \A kind \in {"person", "identifier", "birthdate"} :
      LET rs == SubRecords(kind)
          defines(i, prop) == rs[i][prop] # Undefined
      IN IF \A i \in 1..Len(rs) : \A prop \in PropsOf(kind) : ~defines(i, prop)
           THEN master[kind] = Null
           ELSE /\ master[kind] # Null
                /\ \A prop \in PropsOf(kind) :
                     \/ /\ \A i \in 1..Len(rs) : ~defines(i, prop)
                        /\ master[kind][prop] = Undefined
                     \/ \E i \in 1..Len(rs) :
                          /\ defines(i, prop)
                          /\ \A j \in 1..(i-1) : ~defines(j, prop)
                          /\ master[kind][prop] = rs[i][prop]

\* getDuplicateIdentificators has returned to the handler of POST /reconciliate
FinderReturned == handler = "/reconciliate" /\ loop \in {"running", "done", "aborted"}

\* C11: once the Finder query has returned, the bulk handler has answered 202;
\* it answers in the step in which the batch starts, before any key of a
\* non-empty batch has finished, and nothing that happens to a key afterwards
\* changes the answer.
C11_BulkAcknowledged ==
  [][ /\ FinderReturned' => ack' = "202"
      /\ (ack # "202" /\ ack' = "202") =>
            /\ pc = "getDuplicateIdentificators"
            /\ log' = <<>>
            /\ rrns' # <<>> => (loop' = "running" /\ pc' = "getDuplicatePersonUris")
      /\ ack = "202" => ack' = "202"
    ]_vars

C11_Witness ==
  /\ handler = "/reconciliate" /\ loop = "aborted" /\ ack = "202"
  /\ Len(log) = 1 /\ log[1].response = "500" /\ log[1].failedAt = "insertMasterData"

\* C17: in a bulk run in which no store call fails, the calls are made for the
\* Finder's keys in the Finder's order, one per key, each started only when the
\* one before it has finished, and the run ends with every key reconciled.
C17_BulkSequential ==
  (handler = "/reconciliate" /\ fails = 0 /\ FinderReturned) =>
    /\ loop # "aborted"
    /\ \A j \in 1..Len(log) : log[j].rrn = rrns[j] /\ log[j].response = "204"
    /\ loop = "running" =>
          /\ loopI \in 1..Len(rrns)
          /\ Len(log) = IF pc = "idle" THEN loopI ELSE loopI - 1
          /\ pc # "idle" => rrn = rrns[loopI]
    /\ loop = "done" => Len(log) = Len(rrns)

\* C18: in a bulk run a call is started for a key only if the calls for all the
\* keys before it succeeded; once a call has failed the run is over, with the
\* keys after it never started.
C18_BulkFailureAborts ==
  [][ /\ (handler = "/reconciliate" /\ runs' # runs) =>
            \A j \in 1..Len(log) : log[j].response = "204"
      /\ loop' = "aborted" =>
            /\ pc' = "idle" /\ runs' = loopI' /\ Len(log') = loopI'
            /\ log'[loopI'].response = "500"
            /\ \A j \in 1..loopI' : log'[j].rrn = rrns'[j]
      /\ loop = "aborted" => (runs' = runs /\ store' = store /\ loop' = "aborted")
    ]_vars

C18_Witness ==
  /\ handler = "/reconciliate" /\ loop = "aborted"
  /\ Len(rrns) = 2 /\ loopI = 1 /\ Len(log) = 1
  /\ log[1].failedAt \in UpdateCalls
  /\ getDuplicatePersonUris(store, rrns[2]) # {}

\* C12: in every store and for every key, the Finder returns the key iff the
\* Resolver returns a candidate for it, and the Resolver then returns every
\* (partition, Identity) pair that carries the key.
C12_FinderResolverAgree ==
  \A key \in Keys :
    /\ (key \in getDuplicateIdentificators(store)) <=> (getDuplicatePersonUris(store, key) # {})
    /\ getDuplicatePersonUris(store, key) # {} =>
         getDuplicatePersonUris(store, key) =
           UNION { { [graph |-> g, uri |-> s.v] : s \in Carriers(store, g, key) } : g \in Graphs }

\* the Equivalence Links of a store: the owl:sameAs edges from a retired URI to
\* the URI that superseded it
EquivalenceLinks(st) == { q \in st : q[3] = OwlSameAs /\ q[2] # q[4] }

\* C13: an Equivalence Link that is in a partition is in that partition in every
\* later state: no step removes one.
C13_LinksPermanent ==
  [][ EquivalenceLinks(store) \subseteq EquivalenceLinks(store') ]_vars

\* the objects of the inserted triples of a delta message whose predicate is the
\* external-identifier link, in message order
RECURSIVE LinkObjectsOf(_)
LinkObjectsOf(inserts) ==
  IF inserts = <<>> THEN <<>>
  ELSE (IF Head(inserts).predicate = "adms:identifier" THEN <<Head(inserts).object>> ELSE <<>>)
       \o LinkObjectsOf(Tail(inserts))
RECURSIVE LinkObjects(_)
LinkObjects(d) ==
  IF d = <<>> THEN <<>> ELSE LinkObjectsOf(Head(d).inserts) \o LinkObjects(Tail(d))

Kinds == {"person", "identifier", "birthdate"}
HasKind(bundle, kind) == bundle[kind] # Null

\* the URIs the finished call retired in graph g: those of its slaves there that
\* are not the master's URI of the same kind
Retired(g) ==
  { <<sparqlEscapeUri(slaves[n][kind].uri), sparqlEscapeUri(master[kind].uri)>> :
      <<n, kind>> \in { nk \in (1..Len(slaves)) \X Kinds :
                         /\ slaves[nk[1]].graph = g
                         /\ HasKind(slaves[nk[1]], nk[2])
                         /\ slaves[nk[1]][nk[2]].uri # master[nk[2]].uri } }

\* a term with the master's URI in the place of a retired one
Substituted(g, t) ==
  IF \E r \in Retired(g) : r[1] = t THEN (CHOOSE r \in Retired(g) : r[1] = t)[2] ELSE t

\* the triples of g that the delete steps of the call are meant to remove
DeletedPattern(g) ==
  UNION { SlaveTemplate(store0, g, slaves[n].person.uri) :
            n \in { k \in 1..Len(slaves) : slaves[k].graph = g } }

\* C15: after a successful live reconcile, every triple a contributing partition
\* had about a retired URI, as subject or object, outside the deleted record
\* pattern, is there with the master's URI in its place, and the only triple of
\* the partition that still mentions the retired URI is its Equivalence Link.
C15_ReferencesPreserved ==
  LiveSuccess =>
    \A g \in Contributing : \A r \in Retired(g) :
      /\ \A q \in store0 :
            ( /\ q[1] = g /\ Mentions(q, r[1])
              /\ <<q[2], q[3], q[4]>> \notin DeletedPattern(g) )
            => <<g, Substituted(g, q[2]), q[3], Substituted(g, q[4])>> \in store
      /\ \A q \in store :
            (q[1] = g /\ Mentions(q, r[1])) => q = <<g, r[1], OwlSameAs, r[2]>>

C15_Witness ==
  /\ LiveSuccess
  /\ \E g \in Contributing : \E r \in Retired(g) : \E q \in store0 :
        /\ q[1] = g /\ q[4] = r[1] /\ q[3] = "mandaat:isBestuurlijkeAliasVan"
        /\ <<g, q[2], q[3], r[2]>> \in store
        /\ q \notin store

\* an update call of the running call completes in this step
UpdateDone == updates' = updates + 1

\* the update calls of one slave come in the order of replaceSlaveWithMaster, for
\* the resources the slave has, and the slaves in the order they were fetched in
StepOrder ==
  /\ updates' # updates => (UpdateDone \/ updates' = 0)
  /\ UpdateDone =>
        /\ pc \in UpdateCalls
        /\ Slave.graph = persons[idx].graph /\ Slave.person.uri = persons[idx].uri
        /\ pc = "deleteSlaveData" => (pc' = "insertMasterData" /\ idx' = idx)
        /\ pc = "insertMasterData" => (pc' = "replaceSubject" /\ res' = "person" /\ idx' = idx)
        /\ pc = "replaceSubject" => (pc' = "replaceObject" /\ res' = res /\ idx' = idx)
        /\ pc = "replaceObject" => (pc' = "insertSameAs" /\ res' = res /\ idx' = idx)
        /\ pc = "insertSameAs" =>
              IF res = "person"
                THEN pc' = "replaceSubject" /\ res' = "identifier" /\ idx' = idx
              ELSE IF res = "identifier" /\ HasKind(Slave, "birthdate")
                THEN pc' = "replaceSubject" /\ res' = "birthdate" /\ idx' = idx
              ELSE IF idx < Len(slaves)
                THEN pc' = "deleteSlaveData" /\ idx' = idx + 1
              ELSE pc' = "idle" /\ response' = "204"
  /\ (pc' = "deleteSlaveData" /\ pc # "deleteSlaveData") =>
        (IF pc = "getPerson" THEN idx' = 1 ELSE pc = "insertSameAs")

\* after the insert step of a slave, the master triple set is whole in the graph
\* of every slave rewritten so far
ReinsertedAfterDelete ==
  (pc = "insertMasterData" /\ UpdateDone) =>
    \A n \in 1..idx : InGraph(slaves[n].graph, MasterStatements(master)) \subseteq store'

\* C16: the update calls of a rewrite are issued one at a time in the order
\* delete, insert, then redirect subjects, redirect objects, link for the
\* Identity, the Identifier and the Birth Event the slave has, slave after
\* slave in the Resolver's order; hence whatever master triple a slave's delete
\* removed is back after that slave's insert.
C16_RewriteOrder == [][StepOrder /\ ReinsertedAfterDelete]_vars

\* the triples that differ between two stores
Changed(st, st2) == (st \ st2) \cup (st2 \ st)

\* C20: every triple a live reconcile adds or removes lies in a partition that
\* holds a candidate for the key, and is an Equivalence Link, a triple of the
\* master triple set, a triple of a slave's deleted pattern or a triple that
\* mentions a URI of a slave; all other triples stay as they are.
C20_PartitionFrame ==
  [][ \A q \in Changed(store, store') :
        /\ q[1] \in Contributing
        /\ \/ q[3] = OwlSameAs
           \/ <<q[2], q[3], q[4]>> \in MasterStatements(master)
           \/ \E n \in 1..Len(slaves) :
                 \/ <<q[2], q[3], q[4]>> \in SlaveTemplate(store, slaves[n].graph, slaves[n].person.uri)
                 \/ \E kind \in Kinds :
                       /\ HasKind(slaves[n], kind)
                       /\ Mentions(q, sparqlEscapeUri(slaves[n][kind].uri))
    ]_vars

\* both calls have returned, neither with an exception
BothCompleted ==
  /\ pc = "idle" /\ runs = 1 /\ response = "204"
  /\ other.pc = "done"

\* the candidates either call resolved
Group ==
  { persons[n] : n \in 1..Len(persons) } \cup { other.persons[n] : n \in 1..Len(other.persons) }

\* the Equivalence Links that start at a candidate Identity
GroupLinks ==
  { q \in EquivalenceLinks(store) : \E c \in Group : q[2] = sparqlEscapeUri(c.uri) }

\* C19: after two overlapping live calls for one key have both completed without
\* store failure, every partition that held a candidate holds exactly one
\* Identity for the key and the Equivalence Links of the candidates all point to
\* one URI.
C19_OverlapConverges ==
  BothCompleted =>
    /\ \A c \in Group : Cardinality(Carriers(store, c.graph, rrn)) = 1
    /\ \A q1, q2 \in GroupLinks : q1[4] = q2[4]

\* constructMaster has returned a master with a person
MasterBuilt == master # NoMaster /\ master # TypeError /\ master.person # Null

\* identifier && identifier.uri
LinkTo(r) == IF r = Null THEN JsNull ELSE r.uri

\* the statements of insertMasterData that link the master person to a sub-record
MasterLinks(m) ==
  { t \in MasterStatements(m) : /\ t[1] = sparqlEscapeUri(m.person.uri)
                                /\ t[2] \in {AdmsIdentifier, HeeftGeboorte} }

\* C21: whenever a master Identity exists, its identifier link is the merged
\* master identifier's URI and its birthdate link is the merged master
\* birthdate's URI, absent exactly when that sub-record is absent, whatever
\* links the slaves carried; the statements insertMasterData inserts link the
\* Identity only to sub-records that are inserted with them, and to each of those.
C21_MasterLinkConsistency ==
  MasterBuilt =>
    /\ master.person.identifier = LinkTo(master.identifier)
    /\ master.person.birthdate = LinkTo(master.birthdate)
    /\ Truthy(master.person.identifier) <=> master.identifier # Null
    /\ Truthy(master.person.birthdate) <=> master.birthdate # Null
    /\ \A t \in MasterLinks(master) :
         \E u \in MasterStatements(master) : u[1] = t[3] /\ u[2] = RdfType
    /\ master.identifier # Null =>
         <<sparqlEscapeUri(master.person.uri), AdmsIdentifier,
           sparqlEscapeUri(master.identifier.uri)>> \in MasterStatements(master)
    /\ master.birthdate # Null =>
         <<sparqlEscapeUri(master.person.uri), HeeftGeboorte,
           sparqlEscapeUri(master.birthdate.uri)>> \in MasterStatements(master)

\* a master whose first slave has no birthdate and whose birthdate comes from a
\* later slave has been inserted into a graph
C21_Witness ==
  /\ MasterBuilt
  /\ Len(slaves) > 1
  /\ slaves[1].birthdate = Null
  /\ master.birthdate # Null
  /\ \E g \in Graphs : InGraph(g, MasterStatements(master)) \subseteq store

\* the bundles that have a birth event, and the first of them in the fetched order
WithBirth == { i \in 1..Len(slaves) : slaves[i].birthdate # Null }
FirstWithBirth == CHOOSE i \in WithBirth : \A j \in WithBirth : i <= j

\* C22: the master never gets a newly minted URI: the master Identity's URI and
\* uuid are those of the first bundle in the Resolver's order, the master
\* identifier's URI is that of the first bundle's identifier, the master birth
\* event's URI is that of the first bundle that has a birth event (no master
\* birth event when no bundle has one), and the master is the value of
\* constructMaster on the fetched bundles in their order.
C22_MasterIdentityChoice ==
  MasterBuilt =>
    /\ master.person.uri = slaves[1].person.uri
    /\ master.person.uuid = slaves[1].person.uuid
    /\ master.identifier # Null
    /\ master.identifier.uri = slaves[1].identifier.uri
    /\ IF WithBirth = {} THEN master.birthdate = Null
       ELSE /\ master.birthdate # Null
            /\ master.birthdate.uri = slaves[FirstWithBirth].birthdate.uri
    /\ master = constructMaster(slaves)

\* a master built from two bundles that differ in person URI, uuid and
\* identifier URI, the birth event coming from the second
C22_Witness ==
  /\ MasterBuilt
  /\ Len(slaves) = 2
  /\ slaves[1].person.uri # slaves[2].person.uri
  /\ slaves[1].person.uuid # slaves[2].person.uuid
  /\ slaves[1].identifier.uri # slaves[2].identifier.uri
  /\ FirstWithBirth = 2
  /\ response = "204"

\* the owl:sameAs quads the running call has added to the store
WrittenLinks == { q \in store \ store0 : q[3] = OwlSameAs }

\* q links a resource of a fetched slave to the master's resource of the same
\* kind, in the slave's graph
SlaveToMaster(q) ==
  /\ MasterBuilt
  /\ \E i \in 1..Len(slaves) : \E kind \in Kinds :
       /\ slaves[i][kind] # Null
       /\ master[kind] # Null
       /\ q = <<slaves[i].graph, sparqlEscapeUri(slaves[i][kind].uri), OwlSameAs,
                sparqlEscapeUri(master[kind].uri)>>

\* C23: every owl:sameAs link written by a run goes from a retired slave URI to
\* the master URI of the same kind, with source different from target: the URI
\* chosen as master never gets a link to itself in any graph.
C23_NoSelfLinks ==
  \A q \in WrittenLinks : q[2] # q[4] /\ SlaveToMaster(q)

====
